---- MODULE Spec2Model ----
(***************************************************************************)
(* Price Event Timeline Engine of src/app.py: the question classifier and  *)
(* its extractors, the keyword filter of execute_rule, the stock-out       *)
(* nulling of the price timeline, the grouping of discount days into       *)
(* discount periods, the derivation of price events from observations and  *)
(* the question form handler with the branches of execute_rule.            *)
(*                                                                         *)
(* Text is a sequence of characters.  One Hangul syllable is one character *)
(* and is written here by its romanisation ("hal","in" is 할인); " " is    *)
(* the blank; Latin letters are themselves.  Substring tests, lower-casing *)
(* and whitespace splitting work on these characters as Python's do.       *)
(***************************************************************************)
EXTENDS Integers, Sequences, FiniteSets, TLC

VARIABLES
    q,                \* text model: the question text handed to the pure functions
    ran,              \* text model: names of the text functions that have returned
    intent,           \* text model: result of classify_intent
    product_keywords, \* text model: result of extract_product_name_from_question
    period,           \* text model: result of extract_period
    question,         \* rule model: the question execute_rule was called with
    df_all,           \* rule model: the product summary rows (df_summary)
    df_work,          \* rule model: execute_rule's candidate rows after its filters
    rule_done,        \* rule model: execute_rule has filtered for question
    df_price,         \* timeline model: load_events rows of the selected product
    df_life,          \* timeline model: load_lifecycle_events rows of the product
    date_from,        \* timeline model: first day of the requested window
    date_to,          \* timeline model: last day of the requested window
    df_timeline,      \* timeline model: the merged timeline rows
    df_chart,         \* timeline model: the rows handed to the chart
    timeline_done,    \* timeline model: the timeline has been built
    df_markers,       \* timeline model: the lifecycle markers placed on the chart
    df_events,        \* period model: load_events rows of the product card
    discount_periods, \* period model: the grouped discount periods
    periods_done,     \* period model: discount_periods has been computed
    observations,     \* deriver model: the raw daily observations of one product
    derive_done,      \* deriver model: df_events has been derived from observations
    product_all_events,       \* ask model: rows of the table product_all_events
    product_lifecycle_events, \* ask model: rows of the table product_lifecycle_events
    answer,           \* ask model: what execute_rule returned, or the exception it raised
    calls,            \* ask model: the functions the form handler has called, in order
    question_log,     \* ask model: rows save_question_log has inserted
    question_history, \* ask model: st.session_state.question_history
    ask_done,         \* ask model: the submitted form has been handled
    selected_products, \* selection model: st.session_state.selected_products
    search_history,   \* selection model: st.session_state.search_history
    select_steps      \* selection model: the interactions so far, each with the
                      \* selection and the search history it left

textVars == <<q, ran, intent, product_keywords, period>>
ruleVars == <<question, df_all, df_work, rule_done>>
timelineVars == <<df_price, df_life, date_from, date_to, df_timeline, df_chart,
                  timeline_done, df_markers>>
periodVars == <<df_events, discount_periods, periods_done>>
deriveVars == <<observations, derive_done>>
askVars == <<product_all_events, product_lifecycle_events, answer, calls, question_log,
             question_history, ask_done>>

selectVars == <<selected_products, search_history, select_steps>>

vars == <<textVars, ruleVars, timelineVars, periodVars, deriveVars, askVars, selectVars>>

IdleText ==
    /\ q = <<>> /\ ran = {} /\ intent = "NotRun"
    /\ product_keywords = <<>> /\ period = <<>>

IdleRule ==
    /\ question = <<>> /\ df_all = <<>> /\ df_work = <<>> /\ rule_done = FALSE

IdleTimeline ==
    /\ df_price = {} /\ df_life = {} /\ date_from = 0 /\ date_to = 0
    /\ df_timeline = {} /\ df_chart = {} /\ timeline_done = FALSE
    /\ df_markers = {}

IdlePeriods ==
    /\ df_events = {} /\ discount_periods = <<>> /\ periods_done = FALSE

IdleDerive ==
    /\ observations = {} /\ derive_done = FALSE

IdleAsk ==
    /\ product_all_events = {} /\ product_lifecycle_events = {} /\ answer = {}
    /\ calls = <<>> /\ question_log = <<>> /\ question_history = <<>>
    /\ ask_done = FALSE

IdleSelect ==
    /\ selected_products = {} /\ search_history = <<>> /\ select_steps = <<>>

\* ---------------------------------------------------------------- bounds
\* number of whitespace-separated words of a generated question
MaxWords == 3
\* the day number datetime.today() falls on
Today == 1000
\* days are numbered 1..MaxDay
MaxDay == 6
\* number of lifecycle events of the product
MaxLife == 3

\* ---------------------------------------------------------------- values
NotRun == "NotRun"
\* Python's None where a day number may stand; a present value v is <<v>>
None == <<>>
Some(v) == <<v>>

\* ---------------------------------------------------------------- strings
SP == " "

\* str.lower() on one character: Latin capitals fold, Hangul and digits do not
Lower(c) ==
    CASE c = "K" -> "k"
      [] c = "A" -> "a"
      [] c = "N" -> "n"
      [] c = "U" -> "u"
      [] OTHER -> c

\* str.lower()
LowerStr(s) == [i \in 1..Len(s) |-> Lower(s[i])]

\* Python's  pat in s  : pat occurs in s as a contiguous run
In(pat, s) ==
    \E i \in 0..(Len(s) - Len(pat)) :
        \A j \in 1..Len(pat) : s[i + j] = pat[j]

\* any(p in s for p in pats)
AnyIn(pats, s) == \E p \in pats : In(p, s)

\* str.split(): the maximal runs of non-blank characters, in order
RECURSIVE SplitFrom(_, _, _)
SplitFrom(s, i, cur) ==
    IF i > Len(s)
    THEN IF cur = <<>> THEN <<>> ELSE <<cur>>
    ELSE IF s[i] = SP
         THEN IF cur = <<>>
              THEN SplitFrom(s, i + 1, <<>>)
              ELSE <<cur>> \o SplitFrom(s, i + 1, <<>>)
         ELSE SplitFrom(s, i + 1, Append(cur, s[i]))

Split(s) == SplitFrom(s, 1, <<>>)

\* " ".join(words)
RECURSIVE Join(_)
Join(ws) ==
    IF ws = <<>> THEN <<>>
    ELSE IF Len(ws) = 1 THEN ws[1]
    ELSE ws[1] \o <<SP>> \o Join(Tail(ws))

\* ---------------------------------------------------------------- keywords
K_halin == <<"hal", "in">>                   \* 할인
K_gigan == <<"gi", "gan">>                   \* 기간
K_eonje == <<"eon", "je">>                   \* 언제
K_haengsa == <<"haeng", "sa">>               \* 행사
K_sinjepum == <<"sin", "je", "pum">>         \* 신제품
K_saeropge == <<"sae", "rop", "ge">>         \* 새롭게
K_saero == <<"sae", "ro">>                   \* 새로
K_singyu == <<"sin", "gyu">>                 \* 신규
K_chulsi == <<"chul", "si">>                 \* 출시
K_saeroun == <<"sae", "ro", "un">>           \* 새로운
K_cheoeum == <<"cheo", "eum">>               \* 처음
K_gajang_ssan == <<"ga", "jang", SP, "ssan">> \* 가장 싼
K_choejeoga == <<"choe", "jeo", "ga">>       \* 최저가
K_bissan == <<"bi", "ssan">>                 \* 비싼
K_choegoga == <<"choe", "go", "ga">>         \* 최고가
K_sangseung == <<"sang", "seung">>           \* 상승
K_jeungga == <<"jeung", "ga">>               \* 증가
K_anh == <<"anh">>                           \* 않
K_byeondong == <<"byeon", "dong">>           \* 변동
K_manhi_bakkwin == <<"manh", "i", SP, "ba", "kkwin">> \* 많이 바뀐
K_pumjeol == <<"pum", "jeol">>               \* 품절
K_bogwon == <<"bok", "won">>                 \* 복원
K_jeongsangga == <<"jeong", "sang", "ga">>   \* 정상가
K_eolma == <<"eol", "ma">>                   \* 얼마
K_gagyeok == <<"ga", "gyeok">>               \* 가격
K_jepum == <<"je", "pum">>                   \* 제품
K_jung == <<"jung">>                         \* 중
K_neun == <<"neun">>                         \* 는
K_eun == <<"eun">>                           \* 은
K_ui == <<"ui">>                             \* 의

\* ---------------------------------------------------------------- classifier
\* classify_intent with the fall-through value lost (no final return)
classify_intent_NoDefault(text) ==
    LET s == LowerStr(text) IN
    IF In(K_halin, s) /\ (In(K_gigan, s) \/ In(K_eonje, s)) THEN "DISCOUNT_PERIOD"
    ELSE IF In(K_halin, s) \/ In(K_haengsa, s) THEN "DISCOUNT"
    ELSE IF AnyIn({K_sinjepum, K_saeropge, K_saero, K_singyu, K_chulsi,
                   K_saeroun, K_cheoeum}, s) THEN "NEW"
    ELSE IF In(K_gajang_ssan, s) \/ In(K_choejeoga, s) THEN "PRICE_MIN"
    ELSE IF In(K_bissan, s) \/ In(K_choegoga, s) THEN "PRICE_MAX"
    ELSE IF AnyIn({K_sangseung, K_jeungga}, s) /\ ~In(K_anh, s) THEN "PRICE_UP"
    ELSE IF In(K_byeondong, s) \/ In(K_manhi_bakkwin, s) THEN "VOLATILITY"
    ELSE IF In(K_pumjeol, s) THEN "OUT"
    ELSE IF In(K_bogwon, s) THEN "RESTORE"
    ELSE IF In(K_jeongsangga, s) /\ In(K_byeondong, s) THEN "NORMAL_CHANGE"
    ELSE "NoneType"

\* classify_intent with the plain discount rule tried before the period rule
classify_intent_DiscountFirst(text) ==
    LET s == LowerStr(text) IN
    IF In(K_halin, s) \/ In(K_haengsa, s) THEN "DISCOUNT"
    ELSE IF In(K_halin, s) /\ (In(K_gigan, s) \/ In(K_eonje, s)) THEN "DISCOUNT_PERIOD"
    ELSE IF AnyIn({K_sinjepum, K_saeropge, K_saero, K_singyu, K_chulsi,
                   K_saeroun, K_cheoeum}, s) THEN "NEW"
    ELSE IF In(K_gajang_ssan, s) \/ In(K_choejeoga, s) THEN "PRICE_MIN"
    ELSE IF In(K_bissan, s) \/ In(K_choegoga, s) THEN "PRICE_MAX"
    ELSE IF AnyIn({K_sangseung, K_jeungga}, s) /\ ~In(K_anh, s) THEN "PRICE_UP"
    ELSE IF In(K_byeondong, s) \/ In(K_manhi_bakkwin, s) THEN "VOLATILITY"
    ELSE IF In(K_pumjeol, s) THEN "OUT"
    ELSE IF In(K_bogwon, s) THEN "RESTORE"
    ELSE IF In(K_jeongsangga, s) /\ In(K_byeondong, s) THEN "NORMAL_CHANGE"
    ELSE "UNKNOWN"

\* classify_intent: first matching rule wins
classify_intent(text) ==
    LET s == LowerStr(text) IN
    IF In(K_halin, s) /\ (In(K_gigan, s) \/ In(K_eonje, s)) THEN "DISCOUNT_PERIOD"
    ELSE IF In(K_halin, s) \/ In(K_haengsa, s) THEN "DISCOUNT"
    ELSE IF AnyIn({K_sinjepum, K_saeropge, K_saero, K_singyu, K_chulsi,
                   K_saeroun, K_cheoeum}, s) THEN "NEW"
    ELSE IF In(K_gajang_ssan, s) \/ In(K_choejeoga, s) THEN "PRICE_MIN"
    ELSE IF In(K_bissan, s) \/ In(K_choegoga, s) THEN "PRICE_MAX"
    ELSE IF AnyIn({K_sangseung, K_jeungga}, s) /\ ~In(K_anh, s) THEN "PRICE_UP"
    ELSE IF In(K_byeondong, s) \/ In(K_manhi_bakkwin, s) THEN "VOLATILITY"
    ELSE IF In(K_pumjeol, s) THEN "OUT"
    ELSE IF In(K_bogwon, s) THEN "RESTORE"
    ELSE IF In(K_jeongsangga, s) /\ In(K_byeondong, s) THEN "NORMAL_CHANGE"
    ELSE "UNKNOWN"

\* ---------------------------------------------------------------- extractors
exclude_words ==
    {K_halin, K_gigan, K_eonje, K_eolma, K_gagyeok, K_jepum, K_choejeoga,
     K_choegoga, K_sinjepum, K_pumjeol, K_bogwon, K_jung, K_neun, K_eun, K_ui}

\* extract_product_name_from_question keeping one-character words too
extract_product_name_AnyLength(text) ==
    SelectSeq(Split(text), LAMBDA word : Len(word) >= 1 /\ ~AnyIn(exclude_words, word))

\* extract_product_name_from_question: the words of two or more characters
\* that contain no exclude word, in question order
extract_product_name_from_question(text) ==
    SelectSeq(Split(text), LAMBDA word : Len(word) >= 2 /\ ~AnyIn(exclude_words, word))

P_choegeun == <<"choe", "geun", SP>>                         \* "최근 "
P_7il == P_choegeun \o <<"7", "il">>                          \* 최근 7일
P_iljuil == P_choegeun \o <<"il", "ju", "il">>                \* 최근 일주일
P_1juil == P_choegeun \o <<"1", "ju", "il">>                  \* 최근 1주일
P_handal == P_choegeun \o <<"han", SP, "dal">>                \* 최근 한 달
P_30il == P_choegeun \o <<"3", "0", "il">>                    \* 최근 30일
P_1gaewol == P_choegeun \o <<"1", "gae", "wol">>              \* 최근 1개월
P_3gaewol == P_choegeun \o <<"3", "gae", "wol">>              \* 최근 3개월
P_1nyeon == P_choegeun \o <<"1", "nyeon">>                    \* 최근 1년

\* extract_period with its rules tried in the opposite order
extract_period_LastRuleFirst(text, today) ==
    IF In(P_1nyeon, text) THEN Some(today - 365)
    ELSE IF In(P_3gaewol, text) THEN Some(today - 90)
    ELSE IF AnyIn({P_handal, P_30il, P_1gaewol}, text) THEN Some(today - 30)
    ELSE IF AnyIn({P_7il, P_iljuil, P_1juil}, text) THEN Some(today - 7)
    ELSE None

\* extract_period: start day of the first matching phrase rule, None without one
\* (the text is not lower-cased here)
extract_period(text, today) ==
    IF AnyIn({P_7il, P_iljuil, P_1juil}, text) THEN Some(today - 7)
    ELSE IF AnyIn({P_handal, P_30il, P_1gaewol}, text) THEN Some(today - 30)
    ELSE IF In(P_3gaewol, text) THEN Some(today - 90)
    ELSE IF In(P_1nyeon, text) THEN Some(today - 365)
    ELSE None

\* ---------------------------------------------------------------- questions
\* words the generated questions are made of
Vocabulary ==
    {K_halin, K_gigan, K_sinjepum, <<"ga", "jang">>, <<"ssan">>, K_bissan,
     K_sangseung, <<"anh", "neun">>, K_byeondong, K_pumjeol, K_bogwon,
     K_jeongsangga, <<"choe", "geun">>, <<"7", "il">>,
     <<"ka", "nu">>, <<"K", "A", "N", "U">>, <<"hal", "in", "jung">>, <<"kaep">>}

RECURSIVE WordSeqs(_)
WordSeqs(n) ==
    IF n = 0 THEN {<<>>}
    ELSE LET shorter == WordSeqs(n - 1) IN
         shorter \cup {Append(ws, w) : ws \in {x \in shorter : Len(x) = n - 1},
                                        w \in Vocabulary}

Questions == {Join(ws) : ws \in WordSeqs(MaxWords)}

\* ---------------------------------------------------------------- text model
\* the three pure text functions applied to one question; ran holds the names
\* of the functions that have returned
InitText ==
    /\ q \in Questions
    /\ ran = {}
    /\ intent = NotRun
    /\ product_keywords = <<>>
    /\ period = None
    /\ IdleRule /\ IdleTimeline /\ IdlePeriods /\ IdleDerive /\ IdleAsk /\ IdleSelect

ClassifyIntent ==
    /\ "classify_intent" \notin ran
    /\ intent' = classify_intent(q)
    /\ ran' = ran \cup {"classify_intent"}
    /\ UNCHANGED <<selectVars, q, product_keywords, period, ruleVars, timelineVars, periodVars, deriveVars,
                   askVars>>

ExtractProductName ==
    /\ "extract_product_name_from_question" \notin ran
    /\ product_keywords' = extract_product_name_from_question(q)
    /\ ran' = ran \cup {"extract_product_name_from_question"}
    /\ UNCHANGED <<selectVars, q, intent, period, ruleVars, timelineVars, periodVars, deriveVars,
                   askVars>>

ExtractPeriod ==
    /\ "extract_period" \notin ran
    /\ period' = extract_period(q, Today)
    /\ ran' = ran \cup {"extract_period"}
    /\ UNCHANGED <<selectVars, q, intent, product_keywords, ruleVars, timelineVars, periodVars, deriveVars,
                   askVars>>

NextText == ClassifyIntent \/ ExtractProductName \/ ExtractPeriod

SpecText == InitText /\ [][NextText]_vars

\* ---------------------------------------------------------------- rule model
\* One row of the product summary.  Text fields are character sequences; a
\* missing value is the empty sequence (what _norm_series makes of None/NaN).
Row(url, name, brand, c1, c2, brew) ==
    [product_url |-> url, product_name |-> name, brand |-> brand,
     category1 |-> c1, category2 |-> c2, brew_type_kr |-> brew]

W_kanu == <<"ka", "nu">>                                   \* 카누
W_decaf == <<"di", "ka", "pe", "in">>                      \* 디카페인
W_capsule == <<"kaep", "syul">>                            \* 캡슐
W_stick == <<"seu", "tik">>                                \* 스틱
W_latte == <<"ra", "tte">>                                 \* 라떼

\* the rows a product summary is drawn from, in table order
ProductPool ==
    << Row("u1", <<"ba", "ri", "seu", "ta">>, W_kanu, W_decaf \o W_capsule, <<>>, W_capsule),
       Row("u2", <<"mi", "ni">>, W_kanu, W_stick, <<>>, W_stick),
       Row("u3", W_decaf, <<"K", "A", "N", "U">>, <<>>, <<>>, W_capsule),
       Row("u4", <<"o", "ri", "ji", "neol">>, <<"ne", "seu">>, <<>>, W_capsule, <<>>) >>

\* the sub-tables of the pool, rows kept in table order
RECURSIVE Pick(_, _)
Pick(rows, keep) ==
    IF rows = <<>> THEN <<>>
    ELSE Pick(SubSeq(rows, 1, Len(rows) - 1), keep)
         \o (IF Len(rows) \in keep THEN <<rows[Len(rows)]>> ELSE <<>>)

Catalogs == {Pick(ProductPool, keep) : keep \in SUBSET (1..Len(ProductPool))}

\* words the questions put to execute_rule are made of
RuleVocabulary ==
    {W_kanu, W_decaf, <<"k", "a", "n", "u">>, W_latte, W_capsule, K_halin, <<"kaep">>}

RECURSIVE RuleWordSeqs(_)
RuleWordSeqs(n) ==
    IF n = 0 THEN {<<>>}
    ELSE LET shorter == RuleWordSeqs(n - 1) IN
         shorter \cup {Append(ws, w) : ws \in {x \in shorter : Len(x) = n - 1},
                                        w \in RuleVocabulary}

\* the form only submits a non-empty question
RuleQuestions == {Join(ws) : ws \in RuleWordSeqs(MaxWords)} \ {<<>>}

\* Series.str.contains(keyword, case=False) on one normalised field.  The
\* keyword is a pattern; the generated words hold no pattern metacharacter, so
\* a match is a case-folded substring occurrence.
StrContains(field, keyword) == In(LowerStr(keyword), LowerStr(field))

\* df_all["brew_type_kr"].dropna().unique().tolist(): first occurrences, in order
RECURSIVE Unique(_)
Unique(xs) ==
    IF xs = <<>> THEN <<>>
    ELSE LET init == Unique(SubSeq(xs, 1, Len(xs) - 1))
             last == xs[Len(xs)]
         IN IF \E i \in 1..Len(init) : init[i] = last THEN init ELSE Append(init, last)

\* extract_brew_type: the first brew type of the table that occurs in the
\* lower-cased question, None without one
extract_brew_type(text, df) ==
    LET s == LowerStr(text)
        brew_list == Unique(SelectSeq([i \in 1..Len(df) |-> df[i].brew_type_kr],
                                      LAMBDA b : b # <<>>))
        hits == SelectSeq(brew_list, LAMBDA brew : brew # <<>> /\ In(LowerStr(brew), s))
    IN IF hits = <<>> THEN None ELSE hits[1]

\* execute_rule, brew-type filter
BrewFiltered(text, df) ==
    LET brew_condition == extract_brew_type(text, df)
    IN IF brew_condition # None
       THEN SelectSeq(df, LAMBDA row : row.brew_type_kr = brew_condition)
       ELSE df

\* execute_rule, keyword_mask of one row: the keyword occurs in some field
KeywordMask(row, keyword) ==
    \/ StrContains(row.product_name, keyword)
    \/ StrContains(row.brand, keyword)
    \/ StrContains(row.category1, keyword)
    \/ StrContains(row.category2, keyword)

\* the keyword loop narrowing by every keyword, also one that selects no row
RECURSIVE KeywordFiltered_NoGuard(_, _)
KeywordFiltered_NoGuard(df, keywords) ==
    IF keywords = <<>> THEN df
    ELSE LET keyword == Head(keywords)
             masked == SelectSeq(df, LAMBDA row : KeywordMask(row, keyword))
         IN KeywordFiltered_NoGuard(IF Len(keyword) >= 2 THEN masked ELSE df,
                                    Tail(keywords))

\* execute_rule, keyword loop: each keyword narrows the rows to the masked
\* ones, but only if the mask selects at least one row
RECURSIVE KeywordFiltered(_, _)
KeywordFiltered(df, keywords) ==
    IF keywords = <<>> THEN df
    ELSE LET keyword == Head(keywords)
             masked == SelectSeq(df, LAMBDA row : KeywordMask(row, keyword))
         IN KeywordFiltered(IF Len(keyword) >= 2 /\ masked # <<>> THEN masked ELSE df,
                            Tail(keywords))

\* execute_rule, filter prologue: the candidate rows every branch works on
FilterCandidates(text, df_summary) ==
    KeywordFiltered(BrewFiltered(text, df_summary),
                    extract_product_name_from_question(text))

InitRule ==
    /\ IdleSelect
    /\ IdleText /\ IdleTimeline /\ IdlePeriods /\ IdleDerive /\ IdleAsk
    /\ df_all \in Catalogs
    /\ question = <<>>
    /\ df_work = <<>>
    /\ rule_done = FALSE

\* execute_rule(intent, question, df_all, ...) up to its candidate rows.  The
\* call reads nothing but its arguments, so a behaviour holds one call.
ExecuteRule ==
    \E text \in RuleQuestions :
        /\ rule_done = FALSE
        /\ question' = text
        /\ df_work' = FilterCandidates(text, df_all)
        /\ rule_done' = TRUE
        /\ UNCHANGED <<selectVars, df_all, textVars, timelineVars, periodVars, deriveVars, askVars>>

NextRule == ExecuteRule

SpecRule == InitRule /\ [][NextRule]_vars

\* ---------------------------------------------------------------- timeline model
Days == 1..MaxDay

\* unit price of the price event observed on a day (every day its own price)
PriceOn(d) == 100 + d

Min(S) == CHOOSE x \in S : \A y \in S : x <= y
Max(S) == CHOOSE x \in S : \A y \in S : y <= x

\* the price events a product can have: at most one per day, each with a price
PriceTables ==
    {{[date |-> d, unit_price |-> PriceOn(d)] : d \in ds} : ds \in SUBSET Days}

LifeEvents ==
    {[date |-> d, lifecycle_event |-> k] : d \in Days, k \in {"OUT_OF_STOCK", "RESTOCK"}}

LifeTables == {t \in SUBSET LifeEvents : Cardinality(t) <= MaxLife}

\* restore_after = [d for d in restore_dates if d > out_date], inclusive variant
restore_after_SameDay(out_date, restore_dates) ==
    {d \in restore_dates : d >= out_date}

\* restore_after = [d for d in restore_dates if d > out_date]
restore_after(out_date, restore_dates) ==
    {d \in restore_dates : d > out_date}

\* the matched mask with the restock day included
MaskMatched_Inclusive(event_date, out_date, restore_date) ==
    event_date >= out_date /\ event_date <= restore_date

\* mask = (event_date >= out_date) & (event_date < restore_date)
MaskMatched(event_date, out_date, restore_date) ==
    event_date >= out_date /\ event_date < restore_date

\* the unmatched stock-out left without effect
MaskOpen_Skipped(event_date, out_date) == FALSE

\* mask = event_date >= out_date
MaskOpen(event_date, out_date) == event_date >= out_date

\* the loop over out_dates: some iteration's mask selects the row
Nulled(event_date, out_dates, restore_dates) ==
    \E out_date \in out_dates :
        LET after == restore_after(out_date, restore_dates)
        IN IF after # {}
           THEN MaskMatched(event_date, out_date, Min(after))
           ELSE MaskOpen(event_date, out_date)

\* the timeline rows of one product: the price events inside the window, the
\* unit price removed where a stock-out interval covers the day
MergeTimeline(price, life, from, to) ==
    LET tmp == {row \in price : row.date >= from /\ row.date <= to}
        out_dates == {e.date : e \in {x \in life : x.lifecycle_event = "OUT_OF_STOCK"}}
        restore_dates == {e.date : e \in {x \in life : x.lifecycle_event = "RESTOCK"}}
    IN {[event_date |-> row.date,
         unit_price |-> IF life # {} /\ Nulled(row.date, out_dates, restore_dates)
                        THEN None ELSE Some(row.unit_price)] : row \in tmp}

\* df_chart = df_timeline.dropna(subset=["unit_price"])
DropNa(rows) == {row \in rows : row.unit_price # None}

InitTimeline ==
    /\ IdleSelect
    /\ IdleText /\ IdleRule /\ IdlePeriods /\ IdleDerive /\ IdleAsk
    /\ df_price \in PriceTables
    /\ df_life \in LifeTables
    /\ date_from \in 1..2
    /\ date_to \in (MaxDay - 1)..MaxDay
    /\ df_timeline = {}
    /\ df_chart = {}
    /\ timeline_done = FALSE
    /\ df_markers = {}

\* the result section for one selected product: window filter, stock-out
\* nulling, chart rows
BuildTimeline ==
    /\ timeline_done = FALSE
    /\ df_timeline' = MergeTimeline(df_price, df_life, date_from, date_to)
    /\ df_chart' = DropNa(df_timeline')
    /\ timeline_done' = TRUE
    /\ UNCHANGED <<selectVars, df_price, df_life, date_from, date_to, df_markers, textVars, ruleVars,
                   periodVars, deriveVars, askVars>>

NextTimeline == BuildTimeline

SpecTimeline == InitTimeline /\ [][NextTimeline]_vars

\* ---------------------------------------------------------------- period model
\* the price events of one product: per day none, a NORMAL or a DISCOUNT event
EventChoices ==
    {<<"NORMAL", 100>>, <<"DISCOUNT", 70>>, <<"DISCOUNT", 80>>}

EventTables ==
    UNION {{{[date |-> d, event_type |-> f[d][1], unit_price |-> f[d][2]] : d \in ds}
              : f \in [ds -> EventChoices]} : ds \in SUBSET Days}

\* sort_values("date"): the rows in ascending date order
RECURSIVE SortByDate(_)
SortByDate(rows) ==
    IF rows = {} THEN <<>>
    ELSE LET first == CHOOSE r \in rows : \A o \in rows : r.date <= o.date
         IN <<first>> \o SortByDate(rows \ {first})

\* gap = date.diff().dt.days.fillna(1)
Gap(sorted, i) == IF i = 1 THEN 1 ELSE sorted[i].date - sorted[i - 1].date

\* the group test with a one-day gap opening a group too
NewGroup_EveryDay(gap) == gap >= 1

\* gap > 1
NewGroup(gap) == gap > 1

\* the group key without the running sum
GroupKey_NoCumsum(sorted, i) == IF NewGroup(Gap(sorted, i)) THEN 1 ELSE 0

\* group = (gap > 1).cumsum()
GroupKey(sorted, i) == Cardinality({j \in 1..i : NewGroup(Gap(sorted, j))})

RECURSIVE SortInts(_)
SortInts(S) == IF S = {} THEN <<>> ELSE <<Min(S)>> \o SortInts(S \ {Min(S)})

\* the discount filter letting every kind of event through
IsDiscount_AnyKind(r) == TRUE

\* df_price["event_type"] == "DISCOUNT"
IsDiscount(r) == r.event_type = "DISCOUNT"

\* groupby("group").agg(start_date min, end_date max, unit_price first):
\* one row per group key, in ascending key order
AggregatePeriods(events) ==
    LET df_discount == SortByDate({r \in events : IsDiscount(r)})
        keys == SortInts({GroupKey(df_discount, i) : i \in 1..Len(df_discount)})
        members(k) == {i \in 1..Len(df_discount) : GroupKey(df_discount, i) = k}
    IN [n \in 1..Len(keys) |->
           [start_date |-> Min({df_discount[i].date : i \in members(keys[n])}),
            end_date |-> Max({df_discount[i].date : i \in members(keys[n])}),
            unit_price |-> df_discount[Min(members(keys[n]))].unit_price]]

InitPeriods ==
    /\ IdleSelect
    /\ IdleText /\ IdleRule /\ IdleTimeline /\ IdleDerive /\ IdleAsk
    /\ df_events \in EventTables
    /\ discount_periods = <<>>
    /\ periods_done = FALSE

\* the event-history section of one product card: group the discount days
GroupDiscountPeriods ==
    /\ periods_done = FALSE
    /\ discount_periods' = AggregatePeriods(df_events)
    /\ periods_done' = TRUE
    /\ UNCHANGED <<selectVars, df_events, textVars, ruleVars, timelineVars, deriveVars, askVars>>

NextPeriods == GroupDiscountPeriods

SpecPeriods == InitPeriods /\ [][NextPeriods]_vars

\* ================================================================ claims
TextDone == ran = {"classify_intent", "extract_product_name_from_question",
                   "extract_period"}

\* the intent set the specification lists
SpecIntents ==
    {"DISCOUNT", "DISCOUNT_PERIOD", "NEW", "PRICE_MIN", "PRICE_MAX", "VOLATILITY",
     "OUT", "RESTORE", "NORMAL_CHANGE", "UNKNOWN"}

\* C1 as stated: classify_intent returns a member of the ten-element intent set
\* for every question.
C1_ClosedIntentSet ==
    "classify_intent" \in ran => intent \in SpecIntents

\* C1 amended: classify_intent returns a member of the ten-element intent set
\* or PRICE_UP, and nothing else.
C1_IntentSetWithPriceUp ==
    "classify_intent" \in ran => intent \in SpecIntents \cup {"PRICE_UP"}

C1_Witness ==
    "classify_intent" \in ran /\ intent = "PRICE_UP"

\* C2: a question that contains 할인 and 기간 is classified DISCOUNT_PERIOD,
\* whatever else it contains.
C2_DiscountPeriodFirst ==
    ("classify_intent" \in ran /\ In(K_halin, q) /\ In(K_gigan, q))
        => intent = "DISCOUNT_PERIOD"

\* 할인 and 기간 together with a keyword of a lower-priority rule
C2_Witness ==
    /\ "classify_intent" \in ran
    /\ In(K_halin, q) /\ In(K_gigan, q)
    /\ AnyIn({K_sinjepum, K_bissan, K_byeondong, K_pumjeol, K_bogwon}, q)
    /\ intent = "DISCOUNT_PERIOD"

\* the keywords the rules of classify_intent look for
TriggerKeywords ==
    {K_halin, K_haengsa, K_sinjepum, K_saeropge, K_saero, K_singyu, K_chulsi,
     K_saeroun, K_cheoeum, K_gajang_ssan, K_choejeoga, K_bissan, K_choegoga,
     K_sangseung, K_jeungga, K_byeondong, K_manhi_bakkwin, K_pumjeol, K_bogwon,
     K_jeongsangga}

Unrecognized(text) == ~AnyIn(TriggerKeywords, text)

PeriodPhrases ==
    {P_7il, P_iljuil, P_1juil, P_handal, P_30il, P_1gaewol, P_3gaewol, P_1nyeon}

\* text[i..j] is a whole word of text: a maximal run of non-blank characters
IsWordAt(text, i, j) ==
    /\ i <= j
    /\ \A k \in i..j : text[k] # SP
    /\ (i = 1 \/ text[i - 1] = SP)
    /\ (j = Len(text) \/ text[j + 1] = SP)

\* text has a word of two or more characters that contains no exclude word
HasProductWord(text) ==
    \E i \in 1..Len(text) : \E j \in i..Len(text) :
        /\ IsWordAt(text, i, j)
        /\ j - i + 1 >= 2
        /\ ~AnyIn(exclude_words, SubSeq(text, i, j))

\* C4 as stated: a question with no trigger keyword gives UNKNOWN, an empty
\* keyword list and no period.
C4_UnknownWithEmptyFilters ==
    (TextDone /\ Unrecognized(q))
        => (intent = "UNKNOWN" /\ product_keywords = <<>> /\ period = None)

\* C4 amended: a question with no trigger keyword gives UNKNOWN; its keyword
\* list is empty exactly when it has no word of two or more characters free of
\* exclude words, and its period is None exactly when it holds no period phrase.
C4_UnknownFiltersIndependent ==
    (TextDone /\ Unrecognized(q))
        => /\ intent = "UNKNOWN"
           /\ (product_keywords = <<>>) <=> ~HasProductWord(q)
           /\ (period = None) <=> ~AnyIn(PeriodPhrases, q)

\* an unrecognized, non-empty question whose filters are both empty
C4_Witness ==
    /\ TextDone /\ Unrecognized(q) /\ q # <<>>
    /\ intent = "UNKNOWN" /\ product_keywords = <<>> /\ period = None

Rows(df) == {df[i] : i \in 1..Len(df)}

\* C5 as stated: a row of the brew-filtered table stays a candidate if and only
\* if every extracted token occurs, case-insensitively, in one of its
\* product_name, brand, category1, category2.
C5_KeywordFilterAndOfOr ==
    rule_done =>
        LET tokens == extract_product_name_from_question(question) IN
        \A row \in Rows(BrewFiltered(question, df_all)) :
            (row \in Rows(df_work)) <=>
                \A t \in 1..Len(tokens) :
                    \E f \in {row.product_name, row.brand, row.category1, row.category2} :
                        In(LowerStr(tokens[t]), LowerStr(f))

\* ---- timeline claims
OutDates == {e.date : e \in {x \in df_life : x.lifecycle_event = "OUT_OF_STOCK"}}
RestockDates == {e.date : e \in {x \in df_life : x.lifecycle_event = "RESTOCK"}}

\* r is the earliest RESTOCK later than the OUT_OF_STOCK at o
EarliestLaterRestock(o, r) ==
    r \in RestockDates /\ r > o /\ \A x \in RestockDates : x > o => r <= x

\* day d lies in the stock-out interval the OUT_OF_STOCK at o opens: from o up
\* to its earliest later RESTOCK, or without end when there is none
InStockout(o, d) == o <= d /\ \A r \in RestockDates : r > o => d < r

\* the point still carries the unit price of the price event of its day
KeepsOriginalPrice(pt) ==
    \E row \in df_price : row.date = pt.event_date /\ pt.unit_price = Some(row.unit_price)

NullDays == {pt.event_date : pt \in {x \in df_timeline : x.unit_price = None}}

\* C6: for an OUT_OF_STOCK at o whose earliest later RESTOCK is at r, every
\* timeline point with o <= date < r has a null unit price, and every point
\* outside all stock-out intervals keeps its original price; the points are
\* the price events inside the window.
C6_NullExactlyStockoutInterval ==
    timeline_done =>
        /\ {pt.event_date : pt \in df_timeline}
               = {row.date : row \in {x \in df_price : date_from <= x.date /\ x.date <= date_to}}
        /\ \A o \in OutDates : \A r \in RestockDates :
               EarliestLaterRestock(o, r) =>
                   \A pt \in df_timeline :
                       (o <= pt.event_date /\ pt.event_date < r) => pt.unit_price = None
        /\ \A pt \in df_timeline :
               (~\E o \in OutDates : InStockout(o, pt.event_date)) => KeepsOriginalPrice(pt)

\* OUT_OF_STOCK on day 2, RESTOCK on day 5, prices on days 1..6: null on 2, 3, 4
C6_Witness ==
    /\ timeline_done
    /\ df_life = {[date |-> 2, lifecycle_event |-> "OUT_OF_STOCK"],
                  [date |-> 5, lifecycle_event |-> "RESTOCK"]}
    /\ {pt.event_date : pt \in df_timeline} = 1..6
    /\ NullDays = {2, 3, 4}
    /\ \A pt \in df_timeline : pt.event_date \in {1, 5, 6} => KeepsOriginalPrice(pt)

\* C7: for an OUT_OF_STOCK at o with no later RESTOCK, every timeline point
\* dated o or later has a null unit price, and a point dated before o keeps its
\* price unless the interval of another OUT_OF_STOCK covers it.
C7_OpenStockoutNullsToWindowEnd ==
    timeline_done =>
        \A o \in OutDates :
            (~\E r \in RestockDates : r > o) =>
                /\ \A pt \in df_timeline : pt.event_date >= o => pt.unit_price = None
                /\ \A pt \in df_timeline :
                       (/\ pt.event_date < o
                        /\ ~\E o2 \in OutDates \ {o} : InStockout(o2, pt.event_date))
                           => KeepsOriginalPrice(pt)

\* an unmatched OUT_OF_STOCK with a priced point before it and a nulled point
\* on the last day of the window
C7_Witness ==
    /\ timeline_done
    /\ \E o \in OutDates :
           /\ ~\E r \in RestockDates : r > o
           /\ \E pt \in df_timeline : pt.event_date < o /\ KeepsOriginalPrice(pt)
           /\ \E pt \in df_timeline : pt.event_date = date_to /\ pt.event_date > o
                                      /\ pt.unit_price = None

\* C8: a timeline point on a day d such that some OUT_OF_STOCK at o <= d has no
\* RESTOCK r with o < r <= d has a null unit price and is not among the chart rows.
C8_NoPriceWhileOutOfStock ==
    timeline_done =>
        /\ df_chart \subseteq df_timeline
        /\ \A pt \in df_timeline :
               (\E o \in OutDates :
                    /\ o <= pt.event_date
                    /\ ~\E r \in RestockDates : o < r /\ r <= pt.event_date)
                   => (pt.unit_price = None /\ pt \notin df_chart)

\* a stock-out and a restock on the same day, the day's point nulled, and a
\* charted point elsewhere
C8_Witness ==
    /\ timeline_done
    /\ df_chart # {}
    /\ \E pt \in df_timeline : \E o \in OutDates :
           /\ o = pt.event_date /\ o \in RestockDates
           /\ pt.unit_price = None /\ pt \notin df_chart

\* ---- period claims
DiscountDays == {r.date : r \in {x \in df_events : x.event_type = "DISCOUNT"}}

DiscountPriceOn(d) ==
    (CHOOSE r \in df_events : r.event_type = "DISCOUNT" /\ r.date = d).unit_price

\* the discount day d opens a group: it has no predecessor, or the gap to its
\* predecessor exceeds one day
OpensGroup(d) ==
    LET before == {x \in DiscountDays : x < d}
    IN before = {} \/ d - Max(before) > 1

GroupStarts == {d \in DiscountDays : OpensGroup(d)}

\* the discount days of the group that day s opens
GroupOf(s) ==
    {d \in DiscountDays : d >= s /\ ~\E x \in GroupStarts : s < x /\ x <= d}

PeriodSet == {discount_periods[i] : i \in 1..Len(discount_periods)}

\* C9: a group starts exactly at the first discount day and at every discount
\* day more than one day after its predecessor; each period has the minimum
\* and maximum date of its group and the unit price of the group's first event.
C9_GroupsSplitOnGapOverOneDay ==
    periods_done =>
        /\ Len(discount_periods) = Cardinality(GroupStarts)
        /\ PeriodSet =
               {[start_date |-> Min(GroupOf(s)), end_date |-> Max(GroupOf(s)),
                 unit_price |-> DiscountPriceOn(s)] : s \in GroupStarts}

\* two periods, one of them of several days whose first price differs from a
\* later price of the group
C9_Witness ==
    /\ periods_done
    /\ Len(discount_periods) >= 2
    /\ \E p \in PeriodSet :
           /\ p.start_date < p.end_date
           /\ \E d \in GroupOf(p.start_date) : DiscountPriceOn(d) # p.unit_price

\* C10: every period has start_date <= end_date, the periods are sorted
\* ascending by start_date and pairwise non-overlapping, and every start_date
\* and end_date is the date of an input discount event.
C10_PeriodsOrderedDisjoint ==
    periods_done =>
        /\ \A p \in PeriodSet :
               /\ p.start_date <= p.end_date
               /\ p.start_date \in DiscountDays
               /\ p.end_date \in DiscountDays
        /\ \A i \in 1..Len(discount_periods) : \A j \in 1..Len(discount_periods) :
               i < j =>
                   /\ discount_periods[i].start_date <= discount_periods[j].start_date
                   /\ discount_periods[i].end_date < discount_periods[j].start_date

\* three periods, a one-day one among them
C10_Witness ==
    /\ periods_done
    /\ Len(discount_periods) = 3
    /\ \E p \in PeriodSet : p.start_date = p.end_date
    /\ \E p \in PeriodSet : p.start_date < p.end_date

\* ================================================================ period phrases
\* number of phrases of a generated period question
MaxPhrases == 2

\* the eight period phrases, and words that are only part of one
PhraseVocabulary ==
    {P_7il, P_iljuil, P_1juil, P_handal, P_30il, P_1gaewol, P_3gaewol, P_1nyeon,
     <<"choe", "geun">>, <<"7", "il">>, <<"3", "gae", "wol">>, W_kanu}

RECURSIVE PhraseSeqs(_)
PhraseSeqs(n) ==
    IF n = 0 THEN {<<>>}
    ELSE LET shorter == PhraseSeqs(n - 1) IN
         shorter \cup {Append(ws, w) : ws \in {x \in shorter : Len(x) = n - 1},
                                        w \in PhraseVocabulary}

PhraseQuestions == {Join(ws) : ws \in PhraseSeqs(MaxPhrases)}

\* extract_period applied to one question made of period phrases
InitPhrase ==
    /\ q \in PhraseQuestions
    /\ ran = {}
    /\ intent = NotRun
    /\ product_keywords = <<>>
    /\ period = None
    /\ IdleRule /\ IdleTimeline /\ IdlePeriods /\ IdleDerive /\ IdleAsk /\ IdleSelect

NextPhrase == ExtractPeriod

SpecPhrase == InitPhrase /\ [][NextPhrase]_vars

WeekPhrase == AnyIn({P_7il, P_iljuil, P_1juil}, q)
MonthPhrase == AnyIn({P_handal, P_30il, P_1gaewol}, q)
QuarterPhrase == In(P_3gaewol, q)
YearPhrase == In(P_1nyeon, q)

\* C19: extract_period returns today minus 7 days for a week phrase, else
\* today minus 30 for a month phrase, else today minus 90 for the quarter
\* phrase, else today minus 365 for the year phrase, and None exactly when
\* the question holds none of the phrases.
C19_PeriodPhraseTable ==
    "extract_period" \in ran =>
        /\ WeekPhrase => period = Some(Today - 7)
        /\ (~WeekPhrase /\ MonthPhrase) => period = Some(Today - 30)
        /\ (~WeekPhrase /\ ~MonthPhrase /\ QuarterPhrase) => period = Some(Today - 90)
        /\ (~WeekPhrase /\ ~MonthPhrase /\ ~QuarterPhrase /\ YearPhrase)
               => period = Some(Today - 365)
        /\ (period = None) <=> ~(WeekPhrase \/ MonthPhrase \/ QuarterPhrase \/ YearPhrase)

\* the year phrase stands before a week phrase and the week rule has won
C19_Witness ==
    /\ "extract_period" \in ran
    /\ q = P_1nyeon \o <<SP>> \o P_7il
    /\ period = Some(Today - 7)

\* ================================================================ deriver model
\* The Event Deriver is not part of src/app.py (load_events reads its output,
\* product_all_events); it is modelled from section 4.1 of the specification.

\* observations fall on the days 1..MaxObsDay
MaxObsDay == 5

\* one observation of a day: normal price, sale price or None, capsule count
ObservationChoices ==
    {<<1000, None, 10>>, <<1000, Some(700), 10>>, <<1000, Some(800), 10>>,
     <<1000, Some(700), 0>>}

ObservationTables ==
    UNION {{{[date |-> d, normal_price |-> f[d][1], sale_price |-> f[d][2],
              capsule_count |-> f[d][3], in_stock |-> TRUE] : d \in ds}
              : f \in [ds -> ObservationChoices]} : ds \in SUBSET (1..MaxObsDay)}

\* DISCOUNT when a sale price is present and strictly below the normal price
ObservationKind(o) ==
    IF o.sale_price # None /\ o.sale_price[1] < o.normal_price
    THEN "DISCOUNT" ELSE "NORMAL"

\* unit_price = applicable_price / capsule_count
ObservationUnitPrice(o) ==
    (IF ObservationKind(o) = "DISCOUNT" THEN o.sale_price[1] ELSE o.normal_price)
        \div o.capsule_count

\* the rows in date order; last holds the last emitted unit price of each kind.
\* A row without a usable capsule count contributes no event; a row whose unit
\* price equals the previous emitted value of its kind contributes none either.
RECURSIVE EmitFrom(_, _, _)
EmitFrom(rows, i, last) ==
    IF i > Len(rows) THEN {}
    ELSE LET o == rows[i] IN
         IF o.capsule_count = 0 THEN EmitFrom(rows, i + 1, last)
         ELSE LET kind == ObservationKind(o)
                  price == ObservationUnitPrice(o)
              IN IF last[kind] = Some(price) THEN EmitFrom(rows, i + 1, last)
                 ELSE {[date |-> o.date, event_type |-> kind, unit_price |-> price]}
                      \cup EmitFrom(rows, i + 1, [last EXCEPT ![kind] = Some(price)])

DerivePriceEvents(obs) ==
    EmitFrom(SortByDate(obs), 1, [kind \in {"NORMAL", "DISCOUNT"} |-> None])

InitDerive ==
    /\ IdleSelect
    /\ IdleText /\ IdleRule /\ IdleTimeline /\ IdlePeriods /\ IdleAsk
    /\ observations \in ObservationTables
    /\ derive_done = FALSE

\* the deriver turns the observations into the price events load_events reads
DeriveEvents ==
    /\ derive_done = FALSE
    /\ df_events' = DerivePriceEvents(observations)
    /\ derive_done' = TRUE
    /\ UNCHANGED <<selectVars, observations, discount_periods, periods_done, textVars, ruleVars,
                   timelineVars, askVars>>

\* the product card groups the derived events
GroupDerivedPeriods ==
    /\ derive_done = TRUE
    /\ GroupDiscountPeriods

NextDerive == DeriveEvents \/ GroupDerivedPeriods

SpecDerive == InitDerive /\ [][NextDerive]_vars

\* scenario 1: d1 no sale, d2 and d3 on sale at 700, d4 missing, d5 no sale
Scenario1 ==
    {[date |-> 1, normal_price |-> 1000, sale_price |-> None,
      capsule_count |-> 10, in_stock |-> TRUE],
     [date |-> 2, normal_price |-> 1000, sale_price |-> Some(700),
      capsule_count |-> 10, in_stock |-> TRUE],
     [date |-> 3, normal_price |-> 1000, sale_price |-> Some(700),
      capsule_count |-> 10, in_stock |-> TRUE],
     [date |-> 5, normal_price |-> 1000, sale_price |-> None,
      capsule_count |-> 10, in_stock |-> TRUE]}

Scenario1Grouped == observations = Scenario1 /\ derive_done /\ periods_done

MaxProducts == 2

DaysAgo(k) == Today - k

Ev(d, t, p) == [date |-> d, event_type |-> t, unit_price |-> p]

\* the price events one product can have in product_all_events
PriceHistories ==
    {{Ev(DaysAgo(9), "NORMAL", 100)},
     {Ev(DaysAgo(12), "NORMAL", 120), Ev(DaysAgo(9), "NORMAL", 100),
      Ev(DaysAgo(3), "DISCOUNT", 70)},
     {Ev(DaysAgo(5), "DISCOUNT", 70), Ev(DaysAgo(1), "NORMAL", 100)},
     {Ev(DaysAgo(9), "NORMAL", 70), Ev(DaysAgo(5), "NORMAL", 100),
      Ev(DaysAgo(1), "NORMAL", 70)},
     {Ev(DaysAgo(9), "NORMAL", 0), Ev(DaysAgo(3), "DISCOUNT", 70)},
     {Ev(DaysAgo(5), "NORMAL", 100), Ev(DaysAgo(1), "NORMAL", 150)}}

Lf(d, t) == [date |-> d, lifecycle_event |-> t]

\* the lifecycle events one product can have in product_lifecycle_events
LifeHistories ==
    {{},
     {Lf(DaysAgo(4), "NEW_PRODUCT")},
     {Lf(DaysAgo(4), "OUT_OF_STOCK"), Lf(DaysAgo(2), "RESTOCK")}}

LatestEvent(h) == CHOOSE e \in h : \A o \in h : o.date <= e.date

\* a row of product_price_summary_enriched: the pool row with the product's
\* current unit price and discount flag, those of its latest price event
SummaryRow(i, h) ==
    ProductPool[i] @@ [current_unit_price |-> LatestEvent(h).unit_price,
                       is_discount |-> LatestEvent(h).event_type = "DISCOUNT"]

OfProduct(i, rows) == {r @@ [product_url |-> ProductPool[i].product_url] : r \in rows}

\* the questions typed into the form: an optional product word, the words of
\* one intent, an optional period phrase
AskProductWords == {<<>>, <<W_capsule>>}

AskIntentWords ==
    {<<K_halin, K_gigan>>, <<K_halin>>, <<K_sinjepum>>, <<<<"ga", "jang">>, <<"ssan">>>>,
     <<K_bissan>>, <<K_sangseung>>, <<K_byeondong>>, <<K_pumjeol>>, <<K_bogwon>>,
     <<K_eolma>>}

AskPeriodWords == {<<>>, <<<<"choe", "geun">>, <<"7", "il">>>>}

AskQuestions ==
    {Join(pw \o iw \o dw) : pw \in AskProductWords, iw \in AskIntentWords,
                            dw \in AskPeriodWords}

\* ---------------------------------------------------------------- answers
\* what execute_rule hands back: None, a message string, a product_list dict;
\* Raised stands for an exception leaving the call.  products are the product
\* urls the answer names, ranges the date ranges it gives, value its amount.
Answer(type, text, products, ranges, value) ==
    [type |-> type, text |-> text, products |-> products, ranges |-> ranges,
     value |-> value]

NoneAnswer == Answer("None", "", <<>>, {}, 0)
Message(text) == Answer("str", text, <<>>, {}, 0)
Naming(text, url, value) == Answer("str", text, <<url>>, {}, value)
ProductList(text, urls, ranges) == Answer("product_list", text, urls, ranges, 0)
Raised(exception) == Answer("raise", exception, <<>>, {}, 0)

Urls(df) == [i \in 1..Len(df) |-> df[i].product_url]

\* ---------------------------------------------------------------- execute_rule
EventsOf(url) == {e \in product_all_events : e.product_url = url}

\* supabase.rpc("get_discount_periods_in_range"): the discount periods of the
\* product's events dated in the range; the function lives in the database
get_discount_periods_in_range(p_product_url, p_date_from, p_date_to) ==
    AggregatePeriods({e \in EventsOf(p_product_url) :
                         p_date_from <= e.date /\ e.date <= p_date_to})

\* discount_price_res.data: the DISCOUNT events of the product inside the period
DiscountPriceRows(url, p) ==
    {e \in EventsOf(url) : /\ e.event_type = "DISCOUNT"
                           /\ p.start_date <= e.date /\ e.date <= p.end_date}

\* the normal price taken from the earliest NORMAL event before the period
NormalPriceBefore_Earliest(url, p) ==
    LET rows == {e \in EventsOf(url) : e.event_type = "NORMAL" /\ e.date < p.start_date}
    IN IF rows = {} THEN None
       ELSE Some((CHOOSE e \in rows : \A o \in rows : e.date <= o.date).unit_price)

\* normal_price: the unit price of the latest NORMAL event before the period
NormalPriceBefore(url, p) ==
    LET rows == {e \in EventsOf(url) : e.event_type = "NORMAL" /\ e.date < p.start_date}
    IN IF rows = {} THEN None ELSE Some(LatestEvent(rows).unit_price)

\* (normal_price - discount_price) / normal_price on Python floats raises
\* ZeroDivisionError when both prices are present and normal_price is 0
DiscountRateRaises(url, p) ==
    /\ NormalPriceBefore(url, p) = Some(0)
    /\ DiscountPriceRows(url, p) # {}

\* discount_price: the unit price of a DISCOUNT event inside the period
\* (limit(1); the histories hold one DISCOUNT event per period)
DiscountPriceIn(url, p) ==
    IF DiscountPriceRows(url, p) = {} THEN None
    ELSE Some((CHOOSE e \in DiscountPriceRows(url, p) : TRUE).unit_price)

\* discount_rate = ((normal_price - discount_price) / normal_price) * 100, kept
\* as the fraction <<numerator, denominator>>; None when a price is missing
DiscountRate(normal_price, discount_price) ==
    IF normal_price # None /\ discount_price # None
    THEN Some(<<(normal_price[1] - discount_price[1]) * 100, normal_price[1]>>)
    ELSE None

PeriodRows(url, periods) ==
    [n \in 1..Len(periods) |->
        [product_url |-> url, sd |-> periods[n].start_date, ed |-> periods[n].end_date,
         normal_price |-> NormalPriceBefore(url, periods[n]),
         discount_rate |-> DiscountRate(NormalPriceBefore(url, periods[n]),
                                        DiscountPriceIn(url, periods[n]))]]

\* results of the DISCOUNT_PERIOD branch: one entry per candidate and period
RECURSIVE DiscountPeriodResults(_, _, _)
DiscountPeriodResults(df, from, to) ==
    IF df = <<>> THEN <<>>
    ELSE PeriodRows(Head(df).product_url,
                    get_discount_periods_in_range(Head(df).product_url, from, to))
         \o DiscountPeriodResults(Tail(df), from, to)

DiscountPeriodAnswer(df, from, to) ==
    LET results == DiscountPeriodResults(df, from, to)
    IN IF \E i \in 1..Len(df) :
              LET periods == get_discount_periods_in_range(df[i].product_url, from, to)
              IN \E n \in 1..Len(periods) : DiscountRateRaises(df[i].product_url, periods[n])
       THEN Raised("ZeroDivisionError")
       ELSE IF results = <<>> THEN Message("no discount period information")
       ELSE ProductList("discount periods", Urls(results),
                        {results[i] : i \in 1..Len(results)})

\* the discount test letting every candidate through
IsDiscounted_Always(row) == TRUE

\* df_work["is_discount"] == True
IsDiscounted(row) == row.is_discount = TRUE

DiscountAnswer(df) ==
    LET discounted == SelectSeq(df, IsDiscounted)
    IN IF discounted = <<>> THEN NoneAnswer
       ELSE ProductList("products on discount", Urls(discounted), {})

Priced(df) == SelectSeq(df, LAMBDA row : row.current_unit_price > 0)

PriceMinAnswer(df) ==
    LET df_valid == Priced(df)
    IN IF df_valid = <<>> THEN Message("no product on sale")
       ELSE LET min_price == Min({df_valid[i].current_unit_price : i \in 1..Len(df_valid)})
                df_min == SelectSeq(df_valid, LAMBDA row : row.current_unit_price = min_price)
                df_low(url) == {e \in EventsOf(url) :
                                   e.unit_price > 0 /\ e.unit_price = min_price}
                results == SelectSeq(df_min, LAMBDA row : df_low(row.product_url) # {})
            IN IF results = <<>> THEN Message("no product to compute the lowest price for")
               ELSE ProductList("lowest price products", Urls(results),
                       {[product_url |-> results[i].product_url,
                         sd |-> Min({e.date : e \in df_low(results[i].product_url)}),
                         ed |-> Max({e.date : e \in df_low(results[i].product_url)})]
                          : i \in 1..Len(results)})

\* sort_values leaves the order of equal prices open: iloc[0] is any row of
\* the highest price
PriceMaxAnswers(df) ==
    LET sorted == Priced(df)
    IN IF sorted = <<>> THEN {NoneAnswer}
       ELSE LET top_price == Max({sorted[i].current_unit_price : i \in 1..Len(sorted)})
            IN {Naming("most expensive product", sorted[i].product_url, top_price)
                  : i \in {j \in 1..Len(sorted) : sorted[j].current_unit_price = top_price}}

\* the NEW, OUT and RESTORE branches: the candidates with a lifecycle event of
\* the kind dated in the range
LifecycleAnswer(kind, text, df, from, to) ==
    LET res == {e \in product_lifecycle_events :
                   e.lifecycle_event = kind /\ from <= e.date /\ e.date <= to}
        urls == {e.product_url : e \in res}
        matched == SelectSeq(df, LAMBDA row : row.product_url \in urls)
    IN IF res = {} \/ matched = <<>> THEN NoneAnswer
       ELSE ProductList(text, Urls(matched), {})

\* x.max() - x.min() of the product's unit prices dated start_date or later
Spread(url, start_date) ==
    LET prices == {e.unit_price : e \in {x \in EventsOf(url) : x.date >= start_date}}
    IN Max(prices) - Min(prices)

\* the spread is taken over every product of the table; the product of the
\* largest spread (any one of equal spreads) is then looked up in df_work
VolatilityAnswers(df, start_date) ==
    LET res == {e \in product_all_events : e.date >= start_date}
        urls == {e.product_url : e \in res}
    IN IF res = {} THEN {NoneAnswer}
       ELSE LET top_value == Max({Spread(u, start_date) : u \in urls})
            IN {IF \E i \in 1..Len(df) : df[i].product_url = top_url
                THEN Naming("largest price volatility", top_url, top_value)
                ELSE NoneAnswer
                  : top_url \in {u \in urls : Spread(u, start_date) = top_value}}

\* the rows of product_normal_price_events: the NORMAL events whose price
\* differs from that of the product's previous NORMAL event
product_normal_price_events ==
    {e \in product_all_events :
        /\ e.event_type = "NORMAL"
        /\ LET before == {o \in EventsOf(e.product_url) :
                             o.event_type = "NORMAL" /\ o.date < e.date}
           IN before # {} /\ LatestEvent(before).unit_price # e.unit_price}

\* the NORMAL_CHANGE branch looks the products up in df_summary, not df_work
NormalChangeAnswer(df_summary, start_date) ==
    LET res == {e \in product_normal_price_events :
                   start_date # None => e.date >= start_date[1]}
        listed == SelectSeq(SortByDate(res),
                     LAMBDA e : \E i \in 1..Len(df_summary) :
                                   df_summary[i].product_url = e.product_url)
    IN IF listed = <<>> THEN Message("no normal price change in the period")
       ELSE Answer("str", "normal price changes", Urls(listed), {}, 0)

\* execute_rule: the possible return values (more than one only where the
\* order of equal values is open), Raised for an exception
execute_rule(intent_, text, df_summary, from, to) ==
    LET work == FilterCandidates(text, df_summary)
        all_keywords == extract_product_name_from_question(text)
        start_date == extract_period(text, Today)
    IN IF all_keywords # <<>> /\ work = <<>>
       THEN {Message("no product for the keywords")}
       ELSE IF intent_ = "DISCOUNT_PERIOD" THEN {DiscountPeriodAnswer(work, from, to)}
       ELSE IF intent_ = "DISCOUNT" /\ start_date = None THEN {DiscountAnswer(work)}
       ELSE IF intent_ = "PRICE_MIN" THEN {PriceMinAnswer(work)}
       ELSE IF intent_ = "PRICE_MAX" THEN PriceMaxAnswers(work)
       ELSE IF intent_ = "NEW"
            THEN {LifecycleAnswer("NEW_PRODUCT", "new products", work, from, to)}
       ELSE IF intent_ = "OUT"
            THEN {LifecycleAnswer("OUT_OF_STOCK", "out of stock products", work, from, to)}
       ELSE IF intent_ = "RESTORE"
            THEN {LifecycleAnswer("RESTOCK", "restocked products", work, from, to)}
       ELSE IF intent_ = "VOLATILITY" /\ start_date # None
            THEN VolatilityAnswers(work, start_date[1])
       ELSE IF intent_ = "NORMAL_CHANGE" THEN {NormalChangeAnswer(df_summary, start_date)}
       ELSE IF intent_ = "BRAND_EVENT_SUMMARY"
            THEN {Answer("text", "events per brand", <<>>, {}, 0)}
       ELSE {NoneAnswer}

\* ---------------------------------------------------------------- form handler
\* the truth test sending every answer to the fallback
Truthy_Never(a) == FALSE

\* `if answer:` None is false; the message strings and the dicts are not empty
Truthy(a) == a.type # "None"

\* st.session_state defaults of the handler: the last 90 days
AskDateFrom == DaysAgo(90)
AskDateTo == Today

LogRow(text, q_type, used_llm) ==
    [question |-> text, question_type |-> q_type, used_llm |-> used_llm]

HistoryEntry(text, a, intent_) == [question |-> text, answer |-> a, intent |-> intent_]

\* the summary table is not empty (the page stops before the form otherwise)
InitAsk ==
    /\ IdleSelect
    /\ IdleText /\ IdleTimeline /\ IdlePeriods /\ IdleDerive
    /\ question = <<>> /\ df_work = <<>> /\ rule_done = FALSE
    /\ \E n \in 1..MaxProducts :
         \E hs \in [1..n -> PriceHistories], ls \in [1..n -> LifeHistories] :
            /\ df_all = [i \in 1..n |-> SummaryRow(i, hs[i])]
            /\ product_all_events = UNION {OfProduct(i, hs[i]) : i \in 1..n}
            /\ product_lifecycle_events = UNION {OfProduct(i, ls[i]) : i \in 1..n}
    /\ answer = NoneAnswer
    /\ calls = <<>>
    /\ question_log = <<>>
    /\ question_history = <<>>
    /\ ask_done = FALSE

\* the handler that appends to the history it finds
ClearedHistory_Keep(history) == history

\* st.session_state.question_history = [] at the head of the handler
ClearedHistory(history) == <<>>

\* the question form handler for one non-empty question: empty the history,
\* classify, run the rule, then log and record the rule's answer or the
\* fallback's.  An exception of execute_rule leaves the handler at the call.
HandleQuestion(text) ==
        /\ question' = text
        /\ intent' = classify_intent(text)
        /\ df_work' = FilterCandidates(text, df_all)
        /\ rule_done' = TRUE
        /\ \E a \in execute_rule(classify_intent(text), text, df_all, AskDateFrom, AskDateTo) :
             /\ answer' = a
             /\ IF a.type = "raise"
                THEN /\ calls' = <<"classify_intent", "execute_rule">>
                     /\ question_log' = question_log
                     /\ question_history' = ClearedHistory(question_history)
                ELSE IF Truthy(a)
                THEN /\ calls' = <<"classify_intent", "execute_rule", "save_question_log">>
                     /\ question_log' =
                            Append(question_log, LogRow(text, classify_intent(text), FALSE))
                     /\ question_history' =
                            Append(ClearedHistory(question_history),
                                   HistoryEntry(text, a, classify_intent(text)))
                ELSE /\ calls' = <<"classify_intent", "execute_rule", "llm_fallback",
                                  "save_question_log">>
                     /\ question_log' =
                            Append(question_log, LogRow(text, classify_intent(text), TRUE))
                     /\ question_history' =
                            Append(ClearedHistory(question_history),
                                   HistoryEntry(text, Answer("text", "llm", <<>>, {}, 0),
                                                classify_intent(text)))
        /\ ask_done' = TRUE
        /\ UNCHANGED <<selectVars, q, ran, product_keywords, period, df_all, product_all_events,
                       product_lifecycle_events, timelineVars, periodVars, deriveVars>>

\* one question put to the form; the handler reads the tables and its
\* argument only, so a behaviour holds one submission
SubmitQuestion ==
    \E text \in AskQuestions : ask_done = FALSE /\ HandleQuestion(text)

NextAsk == SubmitQuestion

SpecAsk == InitAsk /\ [][NextAsk]_vars

\* ---------------------------------------------------------------- ask claims
FallbackCalled == \E i \in 1..Len(calls) : calls[i] = "llm_fallback"

\* the product urls an answer names
Named(a) == {a.products[i] : i \in 1..Len(a.products)}

\* the candidates of the submitted question: the summary rows left by its
\* brew-type and keyword filters
CandidateRows == Rows(FilterCandidates(question, df_all))
CandidateUrls == {row.product_url : row \in CandidateRows}

QuestionPeriod == extract_period(question, Today)

HasLifecycle(url, kind) ==
    \E e \in product_lifecycle_events :
        /\ e.product_url = url /\ e.lifecycle_event = kind
        /\ AskDateFrom <= e.date /\ e.date <= AskDateTo

HasDiscountDay(url) ==
    \E e \in EventsOf(url) :
        e.event_type = "DISCOUNT" /\ AskDateFrom <= e.date /\ e.date <= AskDateTo

\* the rule of the intent has no row to report for the candidates
NoRows ==
    \/ intent = "UNKNOWN"
    \/ CandidateRows = {}
    \/ intent = "DISCOUNT_PERIOD" /\ \A u \in CandidateUrls : ~HasDiscountDay(u)
    \/ intent = "DISCOUNT" /\ QuestionPeriod = None
          /\ \A row \in CandidateRows : row.is_discount = FALSE
    \/ intent \in {"PRICE_MIN", "PRICE_MAX"}
          /\ \A row \in CandidateRows : row.current_unit_price <= 0
    \/ intent = "NEW" /\ \A u \in CandidateUrls : ~HasLifecycle(u, "NEW_PRODUCT")
    \/ intent = "OUT" /\ \A u \in CandidateUrls : ~HasLifecycle(u, "OUT_OF_STOCK")
    \/ intent = "RESTORE" /\ \A u \in CandidateUrls : ~HasLifecycle(u, "RESTOCK")

\* C12 as stated: when the intent is UNKNOWN or the rule of the intent has no
\* row to report, execute_rule returns None and the handler calls llm_fallback.
C12_NoRowsFallsBack ==
    (ask_done /\ NoRows) => (answer = NoneAnswer /\ FallbackCalled)

\* C13: llm_fallback is called only after execute_rule has returned, and only
\* if it returned None; when execute_rule returns an answer, llm_fallback is
\* not called and the one log row of the question has used_llm = False.
C13_FallbackOnlyAfterNoMatch ==
    ask_done =>
        /\ \A i \in 1..Len(calls) :
              calls[i] = "llm_fallback" =>
                 /\ \E j \in 1..(i - 1) : calls[j] = "execute_rule"
                 /\ answer = NoneAnswer
        /\ answer.type \in {"str", "product_list", "text"} =>
              /\ ~FallbackCalled
              /\ question_log = <<LogRow(question, intent, FALSE)>>

\* a rule answer naming products was logged without a fallback call
C13_Witness ==
    /\ ask_done
    /\ answer.type = "product_list"
    /\ ~FallbackCalled
    /\ question_log = <<LogRow(question, intent, FALSE)>>

\* the candidates with a price event in the period of the question
InWindow(url) == \E e \in EventsOf(url) : e.date >= QuestionPeriod[1]

LargestCandidateSpread ==
    Max({Spread(u, QuestionPeriod[1]) : u \in {c \in CandidateUrls : InWindow(c)}})

PricedCandidates == {row \in CandidateRows : row.current_unit_price > 0}

\* C14 as stated: every product an answer names is a candidate, and the
\* highest price and the largest volatility reported are those of the
\* candidates alone: whenever a candidate has a price, or a price event in the
\* period, the answer reports the candidates' highest price or largest spread.
C14_BranchesUseCandidatesOnly ==
    (ask_done /\ answer.type # "raise") =>
        /\ Named(answer) \subseteq CandidateUrls
        /\ (intent = "PRICE_MAX" /\ PricedCandidates # {}) =>
              /\ answer.type = "str"
              /\ answer.value = Max({row.current_unit_price : row \in PricedCandidates})
        /\ (/\ intent = "VOLATILITY" /\ QuestionPeriod # None
            /\ \E u \in CandidateUrls : InWindow(u)) =>
              /\ answer.type = "str"
              /\ answer.value = LargestCandidateSpread

\* C15: for intent DISCOUNT and a question without period phrase the answer is
\* the product list of exactly the candidates flagged is_discount, each once,
\* and None when no candidate is flagged.
C15_DiscountListsFlaggedCandidates ==
    (ask_done /\ intent = "DISCOUNT" /\ QuestionPeriod = None) =>
        LET flagged == {row.product_url : row \in {r \in CandidateRows : r.is_discount}}
        IN IF flagged = {} THEN answer = NoneAnswer
           ELSE /\ answer.type = "product_list"
                /\ Named(answer) = flagged
                /\ Len(answer.products) = Cardinality(flagged)

\* a discounted candidate is listed next to a candidate that is left out
C15_Witness ==
    /\ ask_done /\ intent = "DISCOUNT" /\ QuestionPeriod = None
    /\ answer.type = "product_list"
    /\ Named(answer) # {}
    /\ CandidateUrls \ Named(answer) # {}

\* C16 as stated: for intent PRICE_MAX the answer names every candidate whose
\* current unit price is the candidates' highest, and no other product.
C16_PriceMaxReportsAllAtMax ==
    (ask_done /\ intent = "PRICE_MAX" /\ CandidateRows # {}) =>
        Named(answer) =
            {row.product_url : row \in
                {r \in CandidateRows :
                    \A o \in CandidateRows : o.current_unit_price <= r.current_unit_price}}

\* C17 as stated: for intent PRICE_MIN the answer names exactly the candidates
\* whose current unit price is the candidates' lowest, and inside each reported
\* date range every price event of the product has that lowest price.
C17_PriceMinRangeHoldsMinPrice ==
    (ask_done /\ intent = "PRICE_MIN" /\ CandidateRows # {}) =>
        LET lowest == Min({row.current_unit_price : row \in CandidateRows})
        IN /\ Named(answer) =
                 {row.product_url : row \in
                     {r \in CandidateRows : r.current_unit_price = lowest}}
           /\ \A range \in answer.ranges :
                 \A e \in EventsOf(range.product_url) :
                    (range.sd <= e.date /\ e.date <= range.ed) => e.unit_price = lowest

\* C18 as stated: for intent VOLATILITY the answer is None without a period
\* phrase; with one, it names the single candidate whose spread of unit
\* prices over the period is the largest among the candidates.
C18_VolatilityLargestCandidateSpread ==
    (ask_done /\ intent = "VOLATILITY") =>
        /\ QuestionPeriod = None => answer = NoneAnswer
        /\ (QuestionPeriod # None /\ \E u \in CandidateUrls : InWindow(u)) =>
              /\ Len(answer.products) = 1
              /\ answer.products[1] \in CandidateUrls
              /\ InWindow(answer.products[1])
              /\ Spread(answer.products[1], QuestionPeriod[1]) = LargestCandidateSpread

\* C20 as stated: handling a submitted question never ends in an exception,
\* whatever prices the tables hold.
C20_NoExceptionOnPresentData ==
    ask_done => answer.type # "raise"

\* ================================================================ window claims
\* the lifecycle dates of the product that lie inside the requested window
ClippedOutDates == {o \in OutDates : date_from <= o /\ o <= date_to}
ClippedRestockDates == {r \in RestockDates : date_from <= r /\ r <= date_to}

\* day d lies in a stock-out interval formed by the clipped events alone
InClippedStockout(d) ==
    \E o \in ClippedOutDates :
        o <= d /\ \A r \in ClippedRestockDates : r > o => d < r

\* C21 as stated: only the OUT_OF_STOCK and RESTOCK events dated inside
\* [date_from, date_to] take part in the nulling: a timeline price is null
\* exactly when the stock-out intervals of the clipped events cover its day.
C21_OnlyWindowLifecycleNulls ==
    timeline_done =>
        \A pt \in df_timeline :
            (pt.unit_price = None) <=> InClippedStockout(pt.event_date)

\* ================================================================ marker model
\* number of lifecycle events of the product whose markers are drawn
MaxMarkers == 2

MarkerEvents ==
    {[date |-> d, lifecycle_event |-> k]
        : d \in Days, k \in {"NEW_PRODUCT", "OUT_OF_STOCK", "RESTOCK"}}

MarkerTables == {t \in SUBSET MarkerEvents : Cardinality(t) <= MaxMarkers}

\* lifecycle_rows: the lifecycle events inside the window
LifecycleRows(life, from, to) == {e \in life : e.date >= from /\ e.date <= to}

\* the timeline rows with a price
Available(timeline) == {pt \in timeline : pt.unit_price # None}

\* the left join on event_date: the timeline price of the marker's own date
JoinedPrice(timeline, d) ==
    IF \E pt \in timeline : pt.event_date = d
    THEN (CHOOSE pt \in timeline : pt.event_date = d).unit_price
    ELSE None

\* nsmallest(1, "event_date"): the row of the earliest date
EarliestRow(rows) == CHOOSE r \in rows : \A o \in rows : r.event_date <= o.event_date

\* OUT_OF_STOCK: the priced rows dated before the marker, nsmallest(1).iloc[-1]
BackwardPrice(timeline, d) ==
    LET product_prices == {pt \in Available(timeline) : pt.event_date < d}
    IN IF product_prices = {} THEN None ELSE EarliestRow(product_prices).unit_price

\* the forward search taking the latest priced row
ForwardPrice_Latest(timeline, d) ==
    LET product_prices == {pt \in Available(timeline) : pt.event_date >= d}
    IN IF product_prices = {} THEN None
       ELSE (CHOOSE r \in product_prices :
                \A o \in product_prices : o.event_date <= r.event_date).unit_price

\* RESTOCK: the priced rows dated on or after the marker, nsmallest(1).iloc[0]
ForwardPrice(timeline, d) ==
    LET product_prices == {pt \in Available(timeline) : pt.event_date >= d}
    IN IF product_prices = {} THEN None ELSE EarliestRow(product_prices).unit_price

Abs(x) == IF x < 0 THEN 0 - x ELSE x

\* NEW_PRODUCT: nsmallest(1, "date_diff") keeps the first of equal distances,
\* the rows being in date order
NearestPrice(timeline, d) ==
    LET product_prices == Available(timeline)
        date_diff(pt) == Abs(pt.event_date - d)
        closest == {pt \in product_prices :
                       \A o \in product_prices : date_diff(pt) <= date_diff(o)}
    IN IF product_prices = {} THEN None ELSE EarliestRow(closest).unit_price

\* the y-value of one marker: the joined price, else the price found by the
\* search of its kind
MarkerPrice(timeline, e) ==
    IF JoinedPrice(timeline, e.date) # None THEN JoinedPrice(timeline, e.date)
    ELSE IF e.lifecycle_event = "OUT_OF_STOCK" THEN BackwardPrice(timeline, e.date)
    ELSE IF e.lifecycle_event = "RESTOCK" THEN ForwardPrice(timeline, e.date)
    ELSE NearestPrice(timeline, e.date)

\* the markers drawn: those with a y-value (dropna), none without timeline rows
PlaceMarkers(timeline, life, from, to) ==
    IF timeline = {} THEN {}
    ELSE {[event_date |-> e.date, lifecycle_event |-> e.lifecycle_event,
           unit_price |-> MarkerPrice(timeline, e)]
            : e \in {x \in LifecycleRows(life, from, to) :
                        MarkerPrice(timeline, x) # None}}

InitMarkers ==
    /\ IdleSelect
    /\ IdleText /\ IdleRule /\ IdlePeriods /\ IdleDerive /\ IdleAsk
    /\ df_price \in PriceTables
    /\ df_life \in MarkerTables
    /\ date_from \in 1..2
    /\ date_to \in (MaxDay - 1)..MaxDay
    /\ df_timeline = {}
    /\ df_chart = {}
    /\ timeline_done = FALSE
    /\ df_markers = {}

\* the timeline chart of one selected product: the merged timeline, the chart
\* rows and the lifecycle markers laid over them
DrawChart ==
    /\ timeline_done = FALSE
    /\ df_timeline' = MergeTimeline(df_price, df_life, date_from, date_to)
    /\ df_chart' = DropNa(df_timeline')
    /\ df_markers' = PlaceMarkers(df_timeline', df_life, date_from, date_to)
    /\ timeline_done' = TRUE
    /\ UNCHANGED <<selectVars, df_price, df_life, date_from, date_to, textVars, ruleVars,
                   periodVars, deriveVars, askVars>>

NextMarkers == DrawChart

SpecMarkers == InitMarkers /\ [][NextMarkers]_vars

\* ---------------------------------------------------------------- marker claims
PricedDays == {pt.event_date : pt \in {x \in df_timeline : x.unit_price # None}}

TimelinePrice(d) == (CHOOSE pt \in df_timeline : pt.event_date = d).unit_price

WindowLife(kind) ==
    {e.date : e \in {x \in df_life : /\ x.lifecycle_event = kind
                                     /\ date_from <= x.date /\ x.date <= date_to}}

MarkerAt(kind, d) ==
    {m \in df_markers : m.lifecycle_event = kind /\ m.event_date = d}

\* C22 as stated: an OUT_OF_STOCK marker without a price on its own date is
\* drawn at the timeline price of the latest priced day before its date.
C22_OutMarkerAtLatestEarlierPrice ==
    timeline_done =>
        \A d \in WindowLife("OUT_OF_STOCK") :
            (d \notin PricedDays /\ \E p \in PricedDays : p < d) =>
                MarkerAt("OUT_OF_STOCK", d) =
                    {[event_date |-> d, lifecycle_event |-> "OUT_OF_STOCK",
                      unit_price |-> TimelinePrice(Max({p \in PricedDays : p < d}))]}

\* C23: a RESTOCK marker without a price on its own date is drawn at the price
\* of the earliest priced day on or after its date; a NEW_PRODUCT marker
\* without one at the price of a priced day of the smallest distance to its
\* date; a marker of either kind with no such priced day is not drawn.
C23_RestockForwardNewNearest ==
    timeline_done =>
        /\ \A d \in WindowLife("RESTOCK") :
              d \notin PricedDays =>
                 IF \E p \in PricedDays : p >= d
                 THEN MarkerAt("RESTOCK", d) =
                         {[event_date |-> d, lifecycle_event |-> "RESTOCK",
                           unit_price |-> TimelinePrice(Min({p \in PricedDays : p >= d}))]}
                 ELSE MarkerAt("RESTOCK", d) = {}
        /\ \A d \in WindowLife("NEW_PRODUCT") :
              d \notin PricedDays =>
                 IF PricedDays # {}
                 THEN \E p \in PricedDays :
                         /\ \A o \in PricedDays : Abs(p - d) <= Abs(o - d)
                         /\ MarkerAt("NEW_PRODUCT", d) =
                               {[event_date |-> d, lifecycle_event |-> "NEW_PRODUCT",
                                 unit_price |-> TimelinePrice(p)]}
                 ELSE MarkerAt("NEW_PRODUCT", d) = {}

\* a RESTOCK marker on a day without price is drawn at the price of a later
\* day although a still later priced day exists
C23_Witness ==
    /\ timeline_done
    /\ \E d \in WindowLife("RESTOCK") :
          /\ d \notin PricedDays
          /\ Cardinality({p \in PricedDays : p > d}) >= 2
          /\ MarkerAt("RESTOCK", d) # {}

\* ---------------------------------------------------------------- discount rate claims
NormalEventsBefore(url, d) ==
    {e \in EventsOf(url) : e.event_type = "NORMAL" /\ e.date < d}

C25_DiscardsExactlyStopAndTriggerWords ==
    "extract_product_name_from_question" \in ran =>
        product_keywords =
            SelectSeq(Split(q), LAMBDA word : word \notin (exclude_words \cup TriggerKeywords))

\* ---------------------------------------------------------------- classifier claims
\* keywords of the rules classify_intent tries before its volatility rule
HigherPriorityKeywords ==
    {K_halin, K_haengsa, K_sinjepum, K_saeropge, K_saero, K_singyu, K_chulsi,
     K_saeroun, K_cheoeum, K_gajang_ssan, K_choejeoga, K_bissan, K_choegoga,
     K_sangseung, K_jeungga}

\* C26 as stated: a question containing "정상가" and "변동" and no keyword of
\* a discount, new-product or price rule is classified NORMAL_CHANGE, so the
\* NORMAL_CHANGE branch of execute_rule is reachable from classify_intent.
C26_NormalChangeReachable ==
    ("classify_intent" \in ran
        /\ In(K_jeongsangga, LowerStr(q)) /\ In(K_byeondong, LowerStr(q))
        /\ ~AnyIn(HigherPriorityKeywords, LowerStr(q)))
    => intent = "NORMAL_CHANGE"

MaxClicks == 2

\* str.strip(): the text without its leading and trailing blanks
RECURSIVE LStrip(_)
LStrip(s) == IF s # <<>> /\ Head(s) = SP THEN LStrip(Tail(s)) ELSE s

RECURSIVE RStrip(_)
RStrip(s) ==
    IF s # <<>> /\ s[Len(s)] = SP THEN RStrip(SubSeq(s, 1, Len(s) - 1)) ELSE s

Strip(s) == LStrip(RStrip(s))

COMMA == ","

\* str.split(","): the pieces between the commas, empty pieces included
RECURSIVE SplitCommaFrom(_, _, _)
SplitCommaFrom(s, i, cur) ==
    IF i > Len(s) THEN <<cur>>
    ELSE IF s[i] = COMMA
         THEN <<cur>> \o SplitCommaFrom(s, i + 1, <<>>)
         ELSE SplitCommaFrom(s, i + 1, Append(cur, s[i]))

SplitComma(s) == SplitCommaFrom(s, 1, <<>>)

\* what the user types into the search box; every query holds a keyword
KeywordInputs ==
    { W_kanu \o <<SP>>,                          \* "카누 "
      W_capsule,                                 \* "캡슐"
      W_latte,                                   \* "라떼", in no row
      W_kanu \o <<SP>> \o W_decaf,               \* "카누 디카페인"
      W_stick \o <<COMMA, SP>> \o <<"ne", "seu">>,  \* "스틱, 네스"
      <<SP>> }                                   \* blank: not submitted

\* keyword search, mask of one row: the keyword occurs in some of the five fields
SearchMask(row, kw) ==
    \/ StrContains(row.product_name, kw)
    \/ StrContains(row.brand, kw)
    \/ StrContains(row.category1, kw)
    \/ StrContains(row.category2, kw)
    \/ StrContains(row.brew_type_kr, kw)

\* keyword search, blank-separated keywords: each keyword of two characters or
\* more narrows the rows, unless it occurs in none of them
RECURSIVE SearchAnd(_, _)
SearchAnd(candidates_df, keywords) ==
    IF keywords = <<>> THEN candidates_df
    ELSE LET kw == Head(keywords)
             masked == SelectSeq(candidates_df, LAMBDA row : SearchMask(row, kw))
         IN SearchAnd(IF Len(kw) >= 2 /\ masked # <<>> THEN masked ELSE candidates_df,
                      Tail(keywords))

\* keyword search, comma-separated keywords: the rows holding any keyword
SearchOr(df, search_keyword) ==
    LET pieces == SplitComma(search_keyword)
        keywords == SelectSeq([i \in 1..Len(pieces) |-> Strip(pieces[i])],
                              LAMBDA k : k # <<>>)
    IN SelectSeq(df, LAMBDA row : \E i \in 1..Len(keywords) : SearchMask(row, keywords[i]))

\* the candidate rows of a keyword search
SearchCandidates(search_keyword, df) ==
    IF \E i \in 1..Len(search_keyword) : search_keyword[i] = COMMA
    THEN SearchOr(df, search_keyword)
    ELSE SearchAnd(df, Split(search_keyword))

\* drop_duplicates(subset=["product_url"]): the first row of every url, in order
RECURSIVE DropDuplicateUrls(_)
DropDuplicateUrls(df) ==
    IF df = <<>> THEN <<>>
    ELSE LET init == DropDuplicateUrls(SubSeq(df, 1, Len(df) - 1))
             last == df[Len(df)]
         IN IF \E i \in 1..Len(init) : init[i].product_url = last.product_url
            THEN init ELSE Append(init, last)

\* the search_result record; display_name, which no handler reads back, is
\* left out of the result items
SearchResult(search_keyword, candidates_df) ==
    [keyword |-> search_keyword,
     results |-> [i \in 1..Len(DropDuplicateUrls(candidates_df)) |->
                    [product_url |-> DropDuplicateUrls(candidates_df)[i].product_url]]]

\* the search history after a search: the entry of the same keyword is
\* overwritten in place, a new keyword is appended
RecordSearch(history, search_result) ==
    LET same == {i \in 1..Len(history) : history[i].keyword = search_result.keyword}
    IN IF same # {}
       THEN [history EXCEPT ![CHOOSE i \in same : \A j \in same : i <= j] = search_result]
       ELSE Append(history, search_result)

\* the toggle that only ever selects
toggle_product_AddOnly(selected, product_url) ==
    IF product_url = "" THEN selected ELSE selected \cup {product_url}

\* toggle_product(product_url): a falsy url returns at once; a selected url is
\* removed, any other is added
toggle_product(selected, product_url) ==
    IF product_url = "" THEN selected
    ELSE IF product_url \in selected
         THEN selected \ {product_url}
         ELSE selected \cup {product_url}

\* the product urls listed in the results of one history entry
ResultUrls(history) == {history.results[i].product_url : i \in 1..Len(history.results)}

\* the deletion that leaves the selection alone
DiscardResults_Keep(selected, history) == selected

\* delete_search button: selected_products.discard(url) for every result item
DiscardResults(selected, history) == selected \ ResultUrls(history)

\* list.pop(history_idx), positions counted from 1
PopAt(history, idx) ==
    SubSeq(history, 1, idx - 1) \o SubSeq(history, idx + 1, Len(history))

\* one entry of select_steps; the first entry is the state the steps start from
Step(op, arg, selected, history) ==
    [op |-> op, arg |-> arg, selected |-> selected, history |-> history]

\* the search histories up to two searches leave behind
SearchHistories ==
    LET Result(k) == SearchResult(Strip(k), SearchCandidates(Strip(k), ProductPool))
        Typed == {k \in KeywordInputs : Strip(k) # <<>>}
    IN {<<>>} \cup {<<Result(k)>> : k \in Typed}
       \cup {RecordSearch(<<Result(k1)>>, Result(k2)) : k1 \in Typed, k2 \in Typed}

\* a session under way: the product summary is the whole table, some searches
\* have been made and some checkboxes clicked
InitSelect ==
    /\ IdleText /\ IdleTimeline /\ IdlePeriods /\ IdleDerive /\ IdleAsk
    /\ df_all = ProductPool
    /\ question = <<>> /\ df_work = <<>> /\ rule_done = FALSE
    /\ selected_products \in SUBSET {ProductPool[i].product_url : i \in 1..Len(ProductPool)}
    /\ search_history \in SearchHistories
    /\ select_steps = <<Step("start", "", selected_products, search_history)>>

\* the search form submitted with a keyword that is not blank
SearchKeyword ==
    \E keyword_input \in KeywordInputs :
        /\ Len(select_steps) <= MaxClicks
        /\ Strip(keyword_input) # <<>>
        /\ LET search_keyword == Strip(keyword_input)
               search_result == SearchResult(search_keyword,
                                             SearchCandidates(search_keyword, df_all))
           IN /\ search_history' = RecordSearch(search_history, search_result)
              /\ select_steps' = Append(select_steps,
                     Step("search", search_keyword, selected_products,
                          RecordSearch(search_history, search_result)))
        /\ UNCHANGED <<selected_products, textVars, ruleVars, timelineVars, periodVars,
                       deriveVars, askVars>>

\* a product checkbox clicked: the checkboxes of the search results and of the
\* answers call toggle_product with the url of their row, "" for a row without one
ToggleProduct ==
    \E product_url \in {df_all[i].product_url : i \in 1..Len(df_all)} \cup {""} :
        /\ Len(select_steps) <= MaxClicks
        /\ selected_products' = toggle_product(selected_products, product_url)
        /\ select_steps' = Append(select_steps,
               Step("toggle", product_url, toggle_product(selected_products, product_url),
                    search_history))
        /\ UNCHANGED <<search_history, textVars, ruleVars, timelineVars, periodVars,
                       deriveVars, askVars>>

\* the delete button of one search-history box
DeleteSearch ==
    \E history_idx \in 1..Len(search_history) :
        /\ Len(select_steps) <= MaxClicks
        /\ selected_products' = DiscardResults(selected_products, search_history[history_idx])
        /\ search_history' = PopAt(search_history, history_idx)
        /\ select_steps' = Append(select_steps,
               Step("delete", history_idx,
                    DiscardResults(selected_products, search_history[history_idx]),
                    PopAt(search_history, history_idx)))
        /\ UNCHANGED <<textVars, ruleVars, timelineVars, periodVars, deriveVars, askVars>>

NextSelect == SearchKeyword \/ ToggleProduct \/ DeleteSearch

SpecSelect == InitSelect /\ [][NextSelect]_vars

\* ---------------------------------------------------------------- selection claims
\* the interactions of the session that follow its first state
Clicks == 2..Len(select_steps)

\* select_steps ends with the session state
StepsFollowState ==
    select_steps # <<>> =>
        /\ select_steps[Len(select_steps)].selected = selected_products
        /\ select_steps[Len(select_steps)].history = search_history

\* C28: toggle_product flips the membership of exactly the given url and
\* changes no other element; toggling the same url twice in a row restores the
\* original set; an empty url leaves the set unchanged.
C28_ToggleFlipsExactlyOne ==
    /\ StepsFollowState
    /\ \A i \in Clicks :
         select_steps[i].op = "toggle" =>
            LET url == select_steps[i].arg
                before == select_steps[i - 1].selected
                after == select_steps[i].selected
            IN /\ url = "" => after = before
               /\ url # "" => /\ (url \in after) # (url \in before)
                              /\ after \ {url} = before \ {url}
               /\ (i >= 3 /\ select_steps[i - 1].op = "toggle"
                          /\ select_steps[i - 1].arg = url)
                     => after = select_steps[i - 2].selected

\* C28 witness: a selected url and an unselected url toggled twice in a row
C28_Witness ==
    /\ Len(select_steps) = 3
    /\ select_steps[2].op = "toggle" /\ select_steps[3].op = "toggle"
    /\ select_steps[2].arg = "u2" /\ select_steps[3].arg = "u2"
    /\ "u2" \in select_steps[1].selected
    /\ "u2" \notin select_steps[2].selected
    /\ "u1" \in selected_products

\* C30: deleting a search-history entry removes exactly that entry, the other
\* entries keeping their order, and unselects every product url listed in its
\* results; every selected product the entry does not list stays selected.
C30_DeleteRemovesEntryAndItsProducts ==
    /\ StepsFollowState
    /\ \A i \in Clicks :
        select_steps[i].op = "delete" =>
            LET history_idx == select_steps[i].arg
                before == select_steps[i - 1]
                after == select_steps[i]
                listed == ResultUrls(before.history[history_idx])
            IN /\ Len(after.history) = Len(before.history) - 1
               /\ \A j \in 1..Len(after.history) :
                     after.history[j] =
                        before.history[IF j < history_idx THEN j ELSE j + 1]
               /\ after.selected \cap listed = {}
               /\ after.selected \ listed = before.selected \ listed

\* C30 witness: the first of two entries deleted while a product it lists and
\* a product it does not list are selected
C30_Witness ==
    /\ Len(select_steps) = 2
    /\ select_steps[2].op = "delete"
    /\ select_steps[2].arg = 1
    /\ Len(select_steps[1].history) = 2
    /\ select_steps[1].selected \cap ResultUrls(select_steps[1].history[1]) # {}
    /\ select_steps[1].selected \ ResultUrls(select_steps[1].history[1]) # {}
    /\ Len(search_history) = 1

\* ---------------------------------------------------------------- history model
\* number of logged questions of a session
MaxSubmits == 2

\* the questions of a session: a discount period, a discount list, an out of
\* stock list and a price question no rule answers
HistoryQuestions ==
    {Join(<<K_halin, K_gigan>>), Join(<<K_halin>>), Join(<<K_pumjeol>>), Join(<<K_eolma>>)}

\* a session over a summary of one product
InitHistory ==
    /\ IdleSelect
    /\ IdleText /\ IdleTimeline /\ IdlePeriods /\ IdleDerive
    /\ question = <<>> /\ df_work = <<>> /\ rule_done = FALSE
    /\ \E h \in PriceHistories, l \in LifeHistories :
          /\ df_all = <<SummaryRow(1, h)>>
          /\ product_all_events = OfProduct(1, h)
          /\ product_lifecycle_events = OfProduct(1, l)
    /\ answer = NoneAnswer
    /\ calls = <<>>
    /\ question_log = <<>>
    /\ question_history = <<>>
    /\ ask_done = FALSE

\* one more question put to the form
AskAgain ==
    \E text \in HistoryQuestions :
        /\ Len(question_log) < MaxSubmits
        /\ HandleQuestion(text)

\* the delete button of one displayed question: the boxes show the history
\* newest first, box idx deletes entry len - 1 - idx
DeleteQuestion ==
    \E idx \in 0..(Len(question_history) - 1) :
        /\ question_history' = PopAt(question_history, (Len(question_history) - 1 - idx) + 1)
        /\ UNCHANGED <<selectVars, textVars, ruleVars, timelineVars, periodVars, deriveVars,
                       product_all_events, product_lifecycle_events, answer, calls,
                       question_log, ask_done>>

NextHistory == AskAgain \/ DeleteQuestion

SpecHistory == InitHistory /\ [][NextHistory]_vars

\* ---------------------------------------------------------------- history claims
\* the answer the form shows for the submitted question
ShownAnswer ==
    IF Truthy(answer) THEN answer ELSE Answer("text", "llm", <<>>, {}, 0)

\* C29: question_history never holds more than one entry; a submission that
\* completes (it logs the question) leaves exactly one entry, the one of the
\* latest question with its intent and the answer of the rule or the fallback.
C29_HistoryHoldsLatestOnly ==
    /\ [](Len(question_history) <= 1)
    /\ [][question_log' # question_log =>
            question_history' = <<HistoryEntry(question', ShownAnswer', intent')>>]_vars

\* C29 witness: a second question, answered by the fallback, is the only entry
\* after a first question of another text was answered by a rule
C29_Witness ==
    /\ Len(question_log) = 2
    /\ question_log[1].question # question_log[2].question
    /\ ~question_log[1].used_llm
    /\ question_log[2].used_llm
    /\ Len(question_history) = 1
    /\ question_history[1].question = question_log[2].question
====
